---- MODULE Spec2Model ----
(***************************************************************************)
(* Insight Pulse admin backend: the session gate (requireAuth,             *)
(* requireAdmin), login / logout / verify_auth, and the /api routes over   *)
(* the users, departments, permissions and survey_submissions tables.      *)
(*                                                                         *)
(* Every route handler is one action. POST /api/permissions issues its     *)
(* DELETE and its INSERTs as separate statements on its own connection, so *)
(* it is modelled statement by statement.                                  *)
(***************************************************************************)
EXTENDS Integers, Sequences, FiniteSets, TLC

VARIABLES
    users,        \* table users: a set of rows
    departments,  \* table departments: a set of rows [id, name]
    permissions,  \* table permissions: rows in rowid order
    submissions,  \* table survey_submissions: rows in rowid order
    nextUserId,   \* next rowid of users
    nextDeptId,   \* next rowid of departments
    session,      \* req.session.user of each client's session
    replace,      \* the POST /api/permissions in flight of each client
    loggedOut,    \* history: the client's last logout succeeded, no login since
    replaceLog,   \* history of the replace in flight: whether the table held
                  \* rows when it was accepted, whether another replace
                  \* overlapped it, and whether one of its statements failed
    auth,         \* AuthProvider of the browser: user, isAuthenticated, isLoading
                  \* and the value of localStorage['insightPulseUser']
    fetches,      \* the fetch in flight of refreshAuth, login and logout
    authLog       \* history: login() has resolved with a user, no logout()
                  \* running then, and neither logout() nor login() was called
                  \* since; the function that completed last

clientVars == <<auth, fetches, authLog>>

vars == <<users, departments, permissions, submissions, nextUserId, nextDeptId,
          session, replace, loggedOut, replaceLog, auth, fetches, authLog>>

----------------------------------------------------------------------------
(* Bounds of the model *)

MaxUserId == 3       \* last rowid of users handed out in a run
MaxDeptId == 4       \* last rowid of departments handed out in a run
MaxPairs == 2        \* longest allowed_pairs of a request
MaxSubmissions == 1  \* rows of survey_submissions in a run

Clients == {"c1", "c2"}

----------------------------------------------------------------------------
(* Values *)

NoUser == [none |-> TRUE]      \* req.session.user undefined / JSON null

\* bcrypt.hash(password, 10) and bcrypt.compare(password, hash)
Hash(password) == <<"$2a$10$", password>>
Compare(password, hash) == hash = Hash(password)

\* express-validator checks
NotEmpty(s) == s # ""
IsEmail(s) == s \in {"admin@x.io", "rep@x.io", "new@x.io"}
MinLength6(s) == Len(s) >= 6
IsISO8601(s) == s \in {"2025-01-01", "2025-06-30", "2025-12-31"}

\* errors.array(): the messages of the failed checks, in the order of the chain
RECURSIVE ErrorsArray(_)
ErrorsArray(checks) ==
    IF checks = <<>> THEN <<>>
    ELSE (IF Head(checks)[1] THEN <<>> ELSE <<Head(checks)[2]>>)
         \o ErrorsArray(Tail(checks))

\* ORDER BY name: the collation of the names that occur
Collation == <<"Ann", "Bob", "Cy", "Finance", "HR", "IT", "Legal", "Sales">>
Rank(s) == CHOOSE i \in 1..Len(Collation) : Collation[i] = s
RECURSIVE OrderByName(_)
OrderByName(rows) ==
    IF rows = {} THEN <<>>
    ELSE LET first == CHOOSE r \in rows : \A q \in rows :
                          \/ Rank(r.name) < Rank(q.name)
                          \/ Rank(r.name) = Rank(q.name) /\ r.id <= q.id
         IN  <<first>> \o OrderByName(rows \ {first})

\* the state a handler reads and writes
Cur == [users |-> users, departments |-> departments, permissions |-> permissions,
        submissions |-> submissions, nextUserId |-> nextUserId,
        nextDeptId |-> nextDeptId, session |-> session, replace |-> replace]

\* what a handler does: the response, whether the route's handler body ran,
\* and the state it leaves
Out(status, body, ran, st) == [status |-> status, body |-> body, ran |-> ran, st |-> st]

----------------------------------------------------------------------------
(* The database after initializeDatabase *)

AdminRow == [id |-> 1, username |-> "admin", password |-> Hash("password"),
             name |-> "Ann", email |-> "admin@x.io", department |-> "IT",
             role |-> "Admin", is_active |-> 1]

SampleRow(active) == [id |-> 2, username |-> "rep", password |-> Hash("secret1"),
                      name |-> "Bob", email |-> "rep@x.io", department |-> "HR",
                      role |-> "Rep", is_active |-> active]

SeedDepartments == {[id |-> 1, name |-> "IT"], [id |-> 2, name |-> "HR"]}

Idle == [pc |-> "idle"]

Init ==
    /\ \E active \in {0, 1} : users = {AdminRow, SampleRow(active)}
    /\ departments = SeedDepartments
    /\ permissions = <<>>
    /\ submissions = <<>>
    /\ nextUserId = 3
    /\ nextDeptId = 3
    /\ session = [c \in Clients |-> NoUser]
    /\ replace = [c \in Clients |-> Idle]
    /\ loggedOut = [c \in Clients |-> FALSE]
    /\ replaceLog = [c \in Clients |-> [held |-> FALSE, overlapped |-> FALSE, failed |-> FALSE]]
    /\ auth = [user |-> NoUser, isAuthenticated |-> FALSE, isLoading |-> TRUE,
               stored |-> NoUser]
    /\ fetches = [refreshAuth |-> [pc |-> "start"], login |-> [pc |-> "idle"],
                  logout |-> [pc |-> "idle"]]
    /\ authLog = [resolved |-> FALSE, last |-> "none"]

----------------------------------------------------------------------------
(* The storage constraints: UNIQUE(username), UNIQUE(email), UNIQUE(name) *)

UsersUniqueViolation(rows, row) ==
    \E u \in rows : u.id # row.id /\ (u.username = row.username \/ u.email = row.email)

DepartmentsUniqueViolation(rows, name) == \E d \in rows : d.name = name

\* err of a statement's callback: an I/O failure, a constraint violation, or none
RunErr(io, violation) ==
    IF io THEN "SQLITE_IOERR"
    ELSE IF violation THEN "SQLITE_CONSTRAINT_UNIQUE"
    ELSE "none"

----------------------------------------------------------------------------
(* routes/auth.js *)

\* the projection login stores in the session
SessionUser(user) == [id |-> user.id, username |-> user.username, name |-> user.name,
                      email |-> user.email, department |-> user.department,
                      role |-> user.role, is_active |-> user.is_active]

\* mutant: the row is sent as selected
WithoutPassword_Whole(user) == user

\* const { password: _, ...userWithoutPassword } = user
WithoutPassword(user) == [f \in (DOMAIN user) \ {"password"} |-> user[f]]

\* mutant: the query without AND is_active = 1
ActiveByUsername_AnyUser(username) == {u \in users : u.username = username}

\* SELECT * FROM users WHERE username = ? AND is_active = 1
ActiveByUsername(username) == {u \in users : u.username = username /\ u.is_active = 1}

LoginOut(c, username, password, io) ==
    LET errors == ErrorsArray(<< <<NotEmpty(username), "Username is required">>,
                                 <<NotEmpty(password), "Password is required">> >>)
        found == ActiveByUsername(username)
        user == CHOOSE u \in found : TRUE
    IN  IF errors # <<>>
        THEN Out(400, [detail |-> "Validation failed", errors |-> errors], TRUE, Cur)
        ELSE IF io
        THEN Out(500, [detail |-> "Internal server error"], TRUE, Cur)
        ELSE IF found = {}
        THEN Out(401, [detail |-> "Invalid username or password"], TRUE, Cur)
        ELSE IF ~Compare(password, user.password)
        THEN Out(401, [detail |-> "Invalid username or password"], TRUE, Cur)
        ELSE Out(200, WithoutPassword(user), TRUE,
                 [Cur EXCEPT !.session[c] = SessionUser(user)])

\* mutant: the cookie is cleared before the outcome of destroy is known
LogoutOut_ClearsFirst(c, err) ==
    IF err
    THEN [status |-> 500, body |-> [detail |-> "Failed to logout"], ran |-> TRUE,
          clearCookie |-> TRUE, st |-> Cur]
    ELSE [status |-> 200, body |-> [message |-> "Logged out successfully"], ran |-> TRUE,
          clearCookie |-> TRUE, st |-> [Cur EXCEPT !.session[c] = NoUser]]

\* mutant: the cookie is cleared and the session record is kept
LogoutOut_KeepsSession(c, err) ==
    IF err
    THEN [status |-> 500, body |-> [detail |-> "Failed to logout"], ran |-> TRUE,
          clearCookie |-> FALSE, st |-> Cur]
    ELSE [status |-> 200, body |-> [message |-> "Logged out successfully"], ran |-> TRUE,
          clearCookie |-> TRUE, st |-> Cur]

\* req.session.destroy(cb): err is the session store's failure
LogoutOut(c, err) ==
    IF err
    THEN [status |-> 500, body |-> [detail |-> "Failed to logout"], ran |-> TRUE,
          clearCookie |-> FALSE, st |-> Cur]
    ELSE [status |-> 200, body |-> [message |-> "Logged out successfully"], ran |-> TRUE,
          clearCookie |-> TRUE, st |-> [Cur EXCEPT !.session[c] = NoUser]]

VerifyAuthOut(c) ==
    IF session[c] # NoUser
    THEN Out(200, [isAuthenticated |-> TRUE, user |-> session[c]], TRUE, Cur)
    ELSE Out(401, [isAuthenticated |-> FALSE, user |-> NoUser], TRUE, Cur)

----------------------------------------------------------------------------
(* The gate of the /api router *)

\* mutant: the check of req.session.user is left out
requireAuth_Skipped(c) == TRUE

requireAuth(c) == session[c] # NoUser

\* mutant: any logged-in user passes
requireAdmin_AnyUser(c) == session[c] # NoUser

requireAdmin(c) == session[c] # NoUser /\ session[c].role = "Admin"

\* router.use(requireAuth), then the route's own requireAdmin, then the handler
Gated(c, adminOnly, handled) ==
    IF ~requireAuth(c)
    THEN Out(401, [detail |-> "Authentication required"], FALSE, Cur)
    ELSE IF adminOnly /\ ~requireAdmin(c)
    THEN Out(403, [detail |-> "Admin access required"], FALSE, Cur)
    ELSE handled

----------------------------------------------------------------------------
(* /api/departments *)

GetDepartmentsOut(c, io) ==
    Gated(c, FALSE,
        IF io THEN Out(500, [message |-> "Failed to fetch departments"], TRUE, Cur)
        ELSE Out(200, OrderByName(departments), TRUE, Cur))

\* mutant: the constraint error is not told from the other errors
DepartmentExists_Never(err) == FALSE

\* err.code === 'SQLITE_CONSTRAINT_UNIQUE' of the INSERT INTO departments
DepartmentExists(err) == err = "SQLITE_CONSTRAINT_UNIQUE"

PostDepartmentsOut(c, name, io) ==
    LET errors == ErrorsArray(<< <<NotEmpty(name), "Department name is required">> >>)
        err == RunErr(io, DepartmentsUniqueViolation(departments, name))
    IN  Gated(c, TRUE,
        IF errors # <<>>
        THEN Out(400, [message |-> "Validation failed", errors |-> errors], TRUE, Cur)
        ELSE IF DepartmentExists(err)
        THEN Out(400, [message |-> "Department already exists"], TRUE, Cur)
        ELSE IF err # "none"
        THEN Out(500, [message |-> "Failed to create department"], TRUE, Cur)
        ELSE Out(201, [id |-> nextDeptId, name |-> name,
                       message |-> "Department created successfully"], TRUE,
                 [Cur EXCEPT !.departments = @ \cup {[id |-> nextDeptId, name |-> name]},
                             !.nextDeptId = @ + 1]))

----------------------------------------------------------------------------
(* /api/users *)

\* SELECT id, username, name, email, department, role, CASE ... END as status
UserListing(u) == [id |-> u.id, username |-> u.username, name |-> u.name,
                   email |-> u.email, department |-> u.department, role |-> u.role,
                   status |-> IF u.is_active = 1 THEN "Active" ELSE "Inactive"]

GetUsersOut(c, io) ==
    Gated(c, TRUE,
        IF io THEN Out(500, [message |-> "Failed to fetch users"], TRUE, Cur)
        ELSE Out(200, OrderByName({UserListing(u) : u \in users}), TRUE, Cur))

\* mutant: the constraint error is not told from the other errors
UserExists_Never(err) == FALSE

\* err.code === 'SQLITE_CONSTRAINT_UNIQUE' of the INSERT INTO users
UserExists(err) == err = "SQLITE_CONSTRAINT_UNIQUE"

\* The INSERT names a column status and sets it 'Active'; the other routes
\* read is_active. The schema is taken to have both, is_active DEFAULT 1.
PostUsersOut(c, b, io) ==
    LET errors == ErrorsArray(<<
            <<NotEmpty(b.username), "Username is required">>,
            <<MinLength6(b.password), "Password must be at least 6 characters">>,
            <<NotEmpty(b.name), "Name is required">>,
            <<IsEmail(b.email), "Valid email is required">>,
            <<NotEmpty(b.department), "Department is required">>,
            <<NotEmpty(b.role), "Role is required">> >>)
        row == [id |-> nextUserId, username |-> b.username,
                password |-> Hash(b.password), name |-> b.name, email |-> b.email,
                department |-> b.department, role |-> b.role, is_active |-> 1]
        err == RunErr(io, UsersUniqueViolation(users, row))
    IN  Gated(c, TRUE,
        IF errors # <<>>
        THEN Out(400, [message |-> "Validation failed", errors |-> errors], TRUE, Cur)
        ELSE IF UserExists(err)
        THEN Out(400, [message |-> "Username or email already exists"], TRUE, Cur)
        ELSE IF err # "none"
        THEN Out(500, [message |-> "Failed to create user"], TRUE, Cur)
        ELSE Out(201, [id |-> nextUserId, message |-> "User created successfully"], TRUE,
                 [Cur EXCEPT !.users = @ \cup {row}, !.nextUserId = @ + 1]))

PutUsersOut(c, id, b, io) ==
    LET errors == ErrorsArray(<<
            <<NotEmpty(b.name), "Name is required">>,
            <<IsEmail(b.email), "Valid email is required">>,
            <<NotEmpty(b.department), "Department is required">>,
            <<NotEmpty(b.role), "Role is required">> >>)
        Updated(u) == [u EXCEPT !.name = b.name, !.email = b.email,
                                !.department = b.department, !.role = b.role]
        target == {u \in users : u.id = id}
        err == RunErr(io, \E u \in target : UsersUniqueViolation(users, Updated(u)))
    IN  Gated(c, TRUE,
        IF errors # <<>>
        THEN Out(400, [message |-> "Validation failed", errors |-> errors], TRUE, Cur)
        ELSE IF err # "none"
        THEN Out(500, [message |-> "Failed to update user"], TRUE, Cur)
        ELSE IF target = {}
        THEN Out(404, [message |-> "User not found"], TRUE, Cur)
        ELSE Out(200, [message |-> "User updated successfully"], TRUE,
                 [Cur EXCEPT !.users = (@ \ target) \cup {Updated(u) : u \in target}]))

DeleteUsersOut(c, id, io) ==
    LET target == {u \in users : u.id = id}
    IN  Gated(c, TRUE,
        IF io THEN Out(500, [message |-> "Failed to delete user"], TRUE, Cur)
        ELSE IF target = {}
        THEN Out(404, [message |-> "User not found"], TRUE, Cur)
        ELSE Out(200, [message |-> "User deleted successfully"], TRUE,
                 [Cur EXCEPT !.users = @ \ target]))

----------------------------------------------------------------------------
(* /api/permissions *)

DepartmentName(id) == (CHOOSE d \in departments : d.id = id).name

\* SELECT p.*, d1.name, d2.name FROM permissions p JOIN departments d1 ... JOIN
\* departments d2 ...: the rowid of a row is its place in the table
JoinedPermissions ==
    {[id |-> i,
      from_department_id |-> permissions[i].from_department_id,
      to_department_id |-> permissions[i].to_department_id,
      can_survey_self |-> permissions[i].can_survey_self,
      start_date |-> permissions[i].start_date,
      end_date |-> permissions[i].end_date,
      from_department_name |-> DepartmentName(permissions[i].from_department_id),
      to_department_name |-> DepartmentName(permissions[i].to_department_id)] :
        i \in {j \in DOMAIN permissions :
                 /\ \E d \in departments : d.id = permissions[j].from_department_id
                 /\ \E d \in departments : d.id = permissions[j].to_department_id}}

\* ORDER BY d1.name, d2.name
RECURSIVE OrderByNames(_)
OrderByNames(rows) ==
    IF rows = {} THEN <<>>
    ELSE LET Key(r) == <<Rank(r.from_department_name), Rank(r.to_department_name), r.id>>
             Before(a, b) == \/ a[1] < b[1]
                             \/ a[1] = b[1] /\ a[2] < b[2]
                             \/ a[1] = b[1] /\ a[2] = b[2] /\ a[3] <= b[3]
             first == CHOOSE r \in rows : \A q \in rows : Before(Key(r), Key(q))
         IN  <<first>> \o OrderByNames(rows \ {first})

GetPermissionsOut(c, io) ==
    Gated(c, FALSE,
        IF io THEN Out(500, [detail |-> "Failed to fetch permissions"], TRUE, Cur)
        ELSE Out(200, OrderByNames(JoinedPermissions), TRUE, Cur))

\* the row stmt.run inserts for one element of allowed_pairs
PermissionRow(pair, start_date, end_date) ==
    [from_department_id |-> pair.from_dept_id,
     to_department_id |-> pair.to_dept_id,
     can_survey_self |-> IF pair.can_survey_self THEN 1 ELSE 0,
     start_date |-> start_date,
     end_date |-> end_date]

\* POST /api/permissions up to db.serialize: the gate and the validation. A request
\* that passes has sent no response yet (status 0) and its statements are queued.
PostPermissionsOut(c, b) ==
    LET errors == ErrorsArray(<<
            <<b.allowed_pairs.array, "Allowed pairs must be an array">>,
            <<IsISO8601(b.start_date), "Valid start date is required">>,
            <<IsISO8601(b.end_date), "Valid end date is required">> >>)
    IN  Gated(c, TRUE,
        IF errors # <<>>
        THEN Out(400, [message |-> "Validation failed", errors |-> errors], TRUE, Cur)
        ELSE Out(0, [pending |-> TRUE], TRUE,
                 [Cur EXCEPT !.replace[c] =
                     [pc |-> "delete", allowed_pairs |-> b.allowed_pairs.items,
                      start_date |-> b.start_date, end_date |-> b.end_date,
                      i |-> 1]]))

\* mutant: the DELETE is left out
DeleteFromPermissions_Nothing == permissions

\* db.run('DELETE FROM permissions')
DeleteFromPermissions == <<>>

\* stmt.run([...]) of the i-th element of allowed_pairs
InsertIntoPermissions(c) ==
    Append(permissions, PermissionRow(replace[c].allowed_pairs[replace[c].i],
                                      replace[c].start_date, replace[c].end_date))

\* stmt.finalize(cb): every queued stmt.run has been executed
Finalizing(c) == replace[c].pc = "insert" /\ replace[c].i > Len(replace[c].allowed_pairs)

\* err: the failure of the finalize itself, the only error the handler is told
FinalizeOut(c, err) ==
    IF err
    THEN Out(500, [message |-> "Failed to save permissions"], TRUE,
             [Cur EXCEPT !.replace[c] = Idle])
    ELSE Out(200, [message |-> "Permissions saved successfully"], TRUE,
             [Cur EXCEPT !.replace[c] = Idle])

\* What becomes of the error of a db.run or stmt.run that was given no
\* callback: the driver drops it and runs the next statement, or raises it
\* where nothing catches it and the process ends, the request unanswered.
Unhandled == {"dropped", "lost"}

\* the process is running
Up == \A c \in Clients : replace[c].pc # "lost"

MailAlertOut(c) ==
    Gated(c, TRUE, Out(200, [message |-> "Mail alerts sent successfully"], TRUE, Cur))

----------------------------------------------------------------------------
(* /api/surveys, /api/user-submissions, /api/dashboard, /api/submit-survey *)

MockSurvey(id) == [id |-> id, title |-> "Department Satisfaction Survey",
                   rated_dept_name |-> "IT", managing_dept_name |-> "HR",
                   rated_department_id |-> 1, managing_department_id |-> 2]

GetSurveysOut(c) == Gated(c, FALSE, Out(200, <<MockSurvey(1)>>, TRUE, Cur))

GetSurveyOut(c, id) == Gated(c, FALSE, Out(200, MockSurvey(id), TRUE, Cur))

\* ... JOIN departments d1 ... JOIN departments d2 ... WHERE s.submitter_user_id = ?
\* ORDER BY s.submitted_at DESC
RECURSIVE UserSubmissions(_, _)
UserSubmissions(uid, n) ==
    IF n = 0 THEN <<>>
    ELSE LET s == submissions[n]
             joins == /\ s.submitter_user_id = uid
                      /\ \E d \in departments : d.id = s.submitter_department_id
                      /\ \E d \in departments : d.id = s.rated_department_id
         IN  (IF joins
              THEN <<[id |-> n, survey_id |-> s.survey_id,
                      submitter_user_id |-> s.submitter_user_id,
                      submitter_department_id |-> s.submitter_department_id,
                      rated_department_id |-> s.rated_department_id,
                      overall_customer_rating |-> s.overall_customer_rating,
                      suggestions |-> s.suggestions,
                      submitter_department_name |-> DepartmentName(s.submitter_department_id),
                      rated_department_name |-> DepartmentName(s.rated_department_id)]>>
              ELSE <<>>) \o UserSubmissions(uid, n - 1)

GetUserSubmissionsOut(c, io) ==
    Gated(c, FALSE,
        IF io THEN Out(500, [detail |-> "Failed to fetch submissions"], TRUE, Cur)
        ELSE Out(200, UserSubmissions(session[c].id, Len(submissions)), TRUE, Cur))

RECURSIVE SumRatings(_)
SumRatings(rows) ==
    IF rows = <<>> THEN 0 ELSE Head(rows).overall_customer_rating + SumRatings(Tail(rows))

\* AVG(...) as the pair <<sum, count>>; 85.5 is <<171, 2>>
OverallStatsOut(c, io) ==
    Gated(c, FALSE,
        IF io THEN Out(500, [detail |-> "Failed to fetch dashboard stats"], TRUE, Cur)
        ELSE Out(200,
                 [totalSurveysSubmitted |->
                      IF Len(submissions) = 0 THEN 14 ELSE Len(submissions),
                  averageOverallRating |->
                      IF Len(submissions) = 0 \/ SumRatings(submissions) = 0
                      THEN <<171, 2>>
                      ELSE <<SumRatings(submissions), Len(submissions)>>],
                 TRUE, Cur))

\* random is Math.floor(Math.random() * 30) + 70, drawn once per request here
DepartmentMetricsOut(c, random, io) ==
    LET Rated(d) == SelectSeq(submissions, LAMBDA s : s.rated_department_id = d.id)
        Metric(d) == [department_id |-> d.id, department_name |-> d.name,
                      average_rating |->
                          IF Rated(d) = <<>> \/ SumRatings(Rated(d)) = 0
                          THEN <<random, 1>>
                          ELSE <<SumRatings(Rated(d)), Len(Rated(d))>>,
                      total_surveys |-> Len(Rated(d))]
        sorted == OrderByName(departments)
    IN  Gated(c, FALSE,
        IF io THEN Out(500, [detail |-> "Failed to fetch department metrics"], TRUE, Cur)
        ELSE Out(200, [i \in DOMAIN sorted |-> Metric(sorted[i])], TRUE, Cur))

IsInt(v) == v \in Int
\* mutant: isInt() without the options min and max
IsIntBetween_Loose(v, min, max) == v \in Int

IsIntBetween(v, min, max) == v \in Int /\ min <= v /\ v <= max

\* ioGet, ioRun: the failure of db.get and of db.run
SubmitSurveyOut(c, b, ioGet, ioRun) ==
    LET errors == ErrorsArray(<<
            <<IsInt(b.survey_id), "Valid survey ID is required">>,
            <<IsInt(b.rated_department_id), "Valid rated department ID is required">>,
            <<IsIntBetween(b.overall_customer_rating, 1, 100),
              "Rating must be between 1 and 100">> >>)
        dept == {d \in departments : d.name = session[c].department}
        row == [survey_id |-> b.survey_id,
                submitter_user_id |-> session[c].id,
                submitter_department_id |-> (CHOOSE d \in dept : TRUE).id,
                rated_department_id |-> b.rated_department_id,
                overall_customer_rating |-> b.overall_customer_rating,
                suggestions |-> b.suggestions]
    IN  Gated(c, FALSE,
        IF errors # <<>>
        THEN Out(400, [detail |-> "Validation failed", errors |-> errors], TRUE, Cur)
        ELSE IF ioGet \/ dept = {}
        THEN Out(500, [detail |-> "Failed to find user department"], TRUE, Cur)
        ELSE IF ioRun
        THEN Out(500, [detail |-> "Failed to submit survey"], TRUE, Cur)
        ELSE Out(200, [message |-> "Survey submitted successfully",
                       submission_id |-> Len(submissions) + 1], TRUE,
                 [Cur EXCEPT !.submissions = Append(@, row)]))

----------------------------------------------------------------------------
(* AuthContext.tsx: the AuthProvider of one browser, whose cookie is that of
   the client Browser. A fetch resolves with the response of the server, res =
   [error |-> FALSE, status, body], or rejects, res = [error |-> TRUE]. The
   operators give user, isAuthenticated and localStorage[AUTH_LOCAL_STORAGE_KEY]
   (stored; NoUser when the key is not set) as the function leaves them. *)

Browser == "c1"

\* response.ok
Ok(res) == res.status \in 200..299

\* setUser(u); setIsAuthenticated(true); localStorage.setItem(KEY, JSON.stringify(u))
Authenticated(u) == [user |-> u, isAuthenticated |-> TRUE, stored |-> u]

\* mutant: the key is left in localStorage
Unauthenticated_KeepsKey ==
    [user |-> NoUser, isAuthenticated |-> FALSE, stored |-> auth.stored]

\* setUser(null); setIsAuthenticated(false); localStorage.removeItem(KEY)
Unauthenticated == [user |-> NoUser, isAuthenticated |-> FALSE, stored |-> NoUser]

RefreshAuthResult(res) ==
    IF res.error THEN Unauthenticated
    ELSE IF Ok(res)
    THEN IF res.body.isAuthenticated /\ res.body.user # NoUser
         THEN Authenticated(res.body.user)
         ELSE Unauthenticated
    ELSE Unauthenticated

\* 'id' in userData && 'username' in userData && ...
ValidUserData(userData) ==
    {"id", "username", "name", "email", "department", "role"} \subseteq DOMAIN userData

LoginResult(res) ==
    IF res.error THEN Unauthenticated
    ELSE IF Ok(res)
    THEN IF ValidUserData(res.body) THEN Authenticated(res.body) ELSE Unauthenticated
    ELSE Unauthenticated

\* the finally block, whatever the response was
LogoutResult(res) == Unauthenticated

----------------------------------------------------------------------------
(* The requests the clients send *)

LoginNames == {"", "admin", "rep", "carol"}
LoginPasswords == {"", "password", "secret1"}

DepartmentNames == {"", "IT", "Finance", "Legal", "Sales"}

NewUser == [username |-> "carol", password |-> "secret1", name |-> "Cy",
            email |-> "new@x.io", department |-> "IT", role |-> "Rep"]

UserBodies == {NewUser,
               [NewUser EXCEPT !.username = "admin"],
               [NewUser EXCEPT !.email = "rep@x.io"],
               [NewUser EXCEPT !.password = "pw"],
               [NewUser EXCEPT !.email = "nobody"]}

Promote == [name |-> "Bob", email |-> "rep@x.io", department |-> "IT", role |-> "Admin"]
\* "Ops" names no row of departments: the department of a user is free text
Demote == [name |-> "Ann", email |-> "admin@x.io", department |-> "Ops", role |-> "Rep"]

ProfileBodies == {Promote, Demote, [Promote EXCEPT !.name = ""]}

UserIds == 1..MaxUserId

Pair1 == [from_dept_id |-> 1, to_dept_id |-> 2, can_survey_self |-> FALSE]
Pair2 == [from_dept_id |-> 2, to_dept_id |-> 1, can_survey_self |-> TRUE]
Pair3 == [from_dept_id |-> 1, to_dept_id |-> 9, can_survey_self |-> FALSE]  \* no such department

\* the lists <<>>, <<Pair1>>, <<Pair1, Pair2>>, ... of at most MaxPairs elements
PairLists == {[i \in 1..n |-> CASE i % 3 = 1 -> Pair1 [] i % 3 = 2 -> Pair2
                                 [] OTHER -> Pair3] : n \in 0..MaxPairs}

\* a request's dates go with the length of its list, so that the rows of two
\* requests differ
PermissionBodies ==
    {[allowed_pairs |-> [array |-> TRUE, items |-> l],
      start_date |-> IF Len(l) % 2 = 1 THEN "2025-06-30" ELSE "2025-01-01",
      end_date |-> "2025-12-31"] : l \in PairLists}
    \cup {[allowed_pairs |-> [array |-> FALSE, items |-> <<>>],
           start_date |-> "2025-01-01", end_date |-> "2025-12-31"],
          [allowed_pairs |-> [array |-> TRUE, items |-> <<Pair1>>],
           start_date |-> "soon", end_date |-> "2025-12-31"]}

SurveyBodies == {[survey_id |-> 1, rated_department_id |-> 1,
                  overall_customer_rating |-> r, suggestions |-> ""] :
                     r \in {0, 1, 100, 101}}

Randoms == {70, 99}

\* what the user types into the login form: right, right, wrong, empty
Credentials == {<<"admin", "password">>, <<"rep", "secret1">>,
                <<"admin", "secret1">>, <<"", "">>}

\* what the page finds under the key in localStorage when it is loaded
StoredAtLoad == {NoUser, SessionUser(AdminRow)}

----------------------------------------------------------------------------
(* Actions: a request is handled *)

Within(o) == /\ o.st.nextUserId <= MaxUserId + 1
             /\ o.st.nextDeptId <= MaxDeptId + 1
             /\ Len(o.st.submissions) <= MaxSubmissions

Apply(o) ==
    /\ Up
    /\ Within(o)
    /\ users' = o.st.users
    /\ departments' = o.st.departments
    /\ permissions' = o.st.permissions
    /\ submissions' = o.st.submissions
    /\ nextUserId' = o.st.nextUserId
    /\ nextDeptId' = o.st.nextDeptId
    /\ session' = o.st.session
    /\ replace' = o.st.replace

\* an /api request: it leaves the histories alone
Api(o) == Apply(o) /\ UNCHANGED <<loggedOut, replaceLog, clientVars>>

Login(c) ==
    \E username \in LoginNames, password \in LoginPasswords, io \in BOOLEAN :
        LET o == LoginOut(c, username, password, io)
        IN  /\ Apply(o)
            /\ loggedOut' = IF o.status = 200 THEN [loggedOut EXCEPT ![c] = FALSE]
                            ELSE loggedOut
            /\ UNCHANGED <<replaceLog, clientVars>>

Logout(c) ==
    \E err \in BOOLEAN :
        LET o == LogoutOut(c, err)
        IN  /\ Apply(o)
            /\ loggedOut' = IF o.status = 200 THEN [loggedOut EXCEPT ![c] = TRUE]
                            ELSE loggedOut
            /\ UNCHANGED <<replaceLog, clientVars>>

VerifyAuth(c) == Api(VerifyAuthOut(c))

GetDepartments(c) == \E io \in BOOLEAN : Api(GetDepartmentsOut(c, io))

PostDepartments(c) ==
    \E name \in DepartmentNames, io \in BOOLEAN : Api(PostDepartmentsOut(c, name, io))

GetUsers(c) == \E io \in BOOLEAN : Api(GetUsersOut(c, io))

PostUsers(c) == \E b \in UserBodies, io \in BOOLEAN : Api(PostUsersOut(c, b, io))

PutUsers(c) ==
    \E id \in UserIds, b \in ProfileBodies, io \in BOOLEAN : Api(PutUsersOut(c, id, b, io))

DeleteUsers(c) == \E id \in UserIds, io \in BOOLEAN : Api(DeleteUsersOut(c, id, io))

GetPermissions(c) == \E io \in BOOLEAN : Api(GetPermissionsOut(c, io))

\* one POST /api/permissions of a client at a time; every request opens its own
\* connection (getDatabase() ... db.close()), so db.serialize orders the
\* statements of one request and those of two requests interleave
PostPermissions(c) ==
    /\ replace[c].pc = "idle"
    /\ \E b \in PermissionBodies :
          LET o == PostPermissionsOut(c, b)
              InFlight(d) == replace[d].pc # "idle"
          IN  /\ Apply(o)
              /\ replaceLog' =
                    IF o.status # 0 THEN replaceLog
                    ELSE [d \in Clients |->
                            IF d = c
                            THEN [held |-> Len(permissions) > 0,
                                  overlapped |-> \E e \in Clients \ {c} : InFlight(e),
                                  failed |-> FALSE]
                            ELSE IF InFlight(d)
                            THEN [replaceLog[d] EXCEPT !.overlapped = TRUE]
                            ELSE replaceLog[d]]
              /\ UNCHANGED <<loggedOut, clientVars>>

ReplaceDelete(c) ==
    /\ Up
    /\ replace[c].pc = "delete"
    /\ permissions' = DeleteFromPermissions
    /\ replace' = [replace EXCEPT ![c].pc = "insert"]
    /\ UNCHANGED <<users, departments, submissions, nextUserId, nextDeptId, session,
                   loggedOut, replaceLog, clientVars>>

\* The rows of the table are bounded here: a DELETE that fails leaves the rows
\* it found, and the INSERTs that follow add to them.
ReplaceInsert(c) ==
    /\ Up
    /\ replace[c].pc = "insert"
    /\ replace[c].i <= Len(replace[c].allowed_pairs)
    /\ Len(permissions) < Cardinality(Clients) * MaxPairs
    /\ permissions' = InsertIntoPermissions(c)
    /\ replace' = [replace EXCEPT ![c].i = @ + 1]
    /\ UNCHANGED <<users, departments, submissions, nextUserId, nextDeptId, session,
                   loggedOut, replaceLog, clientVars>>

\* a statement given no callback fails: the DELETE removes nothing
ReplaceDeleteFails(c) ==
    /\ Up
    /\ replace[c].pc = "delete"
    /\ \E outcome \in Unhandled :
          /\ replace' = [replace EXCEPT ![c].pc =
                            IF outcome = "lost" THEN "lost" ELSE "insert"]
          /\ replaceLog' = [replaceLog EXCEPT ![c].failed = TRUE]
    /\ UNCHANGED <<users, departments, permissions, submissions, nextUserId,
                   nextDeptId, session, loggedOut, clientVars>>

\* a statement given no callback fails: the INSERT adds no row
ReplaceInsertFails(c) ==
    /\ Up
    /\ replace[c].pc = "insert"
    /\ replace[c].i <= Len(replace[c].allowed_pairs)
    /\ \E outcome \in Unhandled :
          /\ replace' = IF outcome = "lost"
                        THEN [replace EXCEPT ![c].pc = "lost"]
                        ELSE [replace EXCEPT ![c].i = @ + 1]
          /\ replaceLog' = [replaceLog EXCEPT ![c].failed = TRUE]
    /\ UNCHANGED <<users, departments, permissions, submissions, nextUserId,
                   nextDeptId, session, loggedOut, clientVars>>

ReplaceFinalize(c) ==
    /\ Finalizing(c)
    /\ \E err \in BOOLEAN : Apply(FinalizeOut(c, err))
    /\ replaceLog' = [replaceLog EXCEPT ![c] = [held |-> FALSE, overlapped |-> FALSE, failed |-> FALSE]]
    /\ UNCHANGED <<loggedOut, clientVars>>

MailAlert(c) == Api(MailAlertOut(c))

GetSurveys(c) == Api(GetSurveysOut(c))

GetSurvey(c) == \E id \in {1, 2} : Api(GetSurveyOut(c, id))

GetUserSubmissions(c) == \E io \in BOOLEAN : Api(GetUserSubmissionsOut(c, io))

OverallStats(c) == \E io \in BOOLEAN : Api(OverallStatsOut(c, io))

DepartmentMetrics(c) ==
    \E random \in Randoms, io \in BOOLEAN : Api(DepartmentMetricsOut(c, random, io))

SubmitSurvey(c) ==
    \E b \in SurveyBodies, ioGet \in BOOLEAN, ioRun \in BOOLEAN :
        Api(SubmitSurveyOut(c, b, ioGet, ioRun))

----------------------------------------------------------------------------
(* Actions of the browser: a function of the AuthProvider is called, its
   request is served, its fetch returns and the function runs to its end *)

serverVars == <<users, departments, permissions, submissions, nextUserId, nextDeptId,
                session, replace, loggedOut, replaceLog>>

Pending(f) == fetches[f].pc = "sent"
Returning(f) == fetches[f].pc \in {"sent", "answered"}
Answered(o) == [pc |-> "answered", status |-> o.status, body |-> o.body]

\* the fetch resolves with the response, or rejects: the request or the
\* response is lost
Res(f, network) ==
    IF network THEN [error |-> TRUE]
    ELSE [error |-> FALSE, status |-> fetches[f].status, body |-> fetches[f].body]

Ends(f, result) ==
    /\ auth' = [user |-> result.user, isAuthenticated |-> result.isAuthenticated,
                 isLoading |-> FALSE, stored |-> result.stored]
    /\ UNCHANGED serverVars

\* useEffect(() => { refreshAuth() }) when the provider is mounted
RefreshAuthCall ==
    /\ fetches.refreshAuth.pc = "start"
    /\ fetches' = [fetches EXCEPT !.refreshAuth = [pc |-> "sent"]]
    /\ \E found \in StoredAtLoad : auth' = [auth EXCEPT !.isLoading = TRUE, !.stored = found]
    /\ UNCHANGED <<serverVars, authLog>>

RefreshAuthServed ==
    /\ Pending("refreshAuth")
    /\ LET o == VerifyAuthOut(Browser)
       IN  /\ Apply(o)
           /\ fetches' = [fetches EXCEPT !.refreshAuth = Answered(o)]
    /\ UNCHANGED <<loggedOut, replaceLog, auth, authLog>>

RefreshAuthReturns ==
    /\ Returning("refreshAuth")
    /\ \E network \in BOOLEAN :
          /\ Pending("refreshAuth") => network
          /\ Ends("refreshAuth", RefreshAuthResult(Res("refreshAuth", network)))
    /\ fetches' = [fetches EXCEPT !.refreshAuth = [pc |-> "done"]]
    /\ authLog' = [authLog EXCEPT !.last = "refreshAuth"]

\* the effect has run before the page takes any input
Mounted == fetches.refreshAuth.pc # "start"

LoginCall ==
    /\ Mounted
    /\ fetches.login.pc = "idle"
    /\ \E up \in Credentials :
          fetches' = [fetches EXCEPT !.login =
                         [pc |-> "sent", username |-> up[1], password |-> up[2]]]
    /\ auth' = [auth EXCEPT !.isLoading = TRUE]
    /\ authLog' = [authLog EXCEPT !.resolved = FALSE]
    /\ UNCHANGED serverVars

LoginServed ==
    /\ Pending("login")
    /\ \E io \in BOOLEAN :
          LET o == LoginOut(Browser, fetches.login.username, fetches.login.password, io)
          IN  /\ Apply(o)
              /\ loggedOut' = IF o.status = 200
                              THEN [loggedOut EXCEPT ![Browser] = FALSE]
                              ELSE loggedOut
              /\ fetches' = [fetches EXCEPT !.login = Answered(o)]
    /\ UNCHANGED <<replaceLog, auth, authLog>>

LoginReturns ==
    /\ Returning("login")
    /\ \E network \in BOOLEAN :
          /\ Pending("login") => network
          /\ LET result == LoginResult(Res("login", network))
             IN  /\ Ends("login", result)
                 /\ authLog' = [resolved |-> /\ result.user # NoUser
                                              /\ fetches.logout.pc = "idle",
                                 last |-> "login"]
    /\ fetches' = [fetches EXCEPT !.login = [pc |-> "idle"]]

LogoutCall ==
    /\ Mounted
    /\ fetches.logout.pc = "idle"
    /\ fetches' = [fetches EXCEPT !.logout = [pc |-> "sent"]]
    /\ auth' = [auth EXCEPT !.isLoading = TRUE]
    /\ authLog' = [authLog EXCEPT !.resolved = FALSE]
    /\ UNCHANGED serverVars

LogoutServed ==
    /\ Pending("logout")
    /\ \E err \in BOOLEAN :
          LET o == LogoutOut(Browser, err)
          IN  /\ Apply(o)
              /\ loggedOut' = IF o.status = 200
                              THEN [loggedOut EXCEPT ![Browser] = TRUE]
                              ELSE loggedOut
              /\ fetches' = [fetches EXCEPT !.logout = Answered(o)]
    /\ UNCHANGED <<replaceLog, auth, authLog>>

LogoutReturns ==
    /\ Returning("logout")
    /\ \E network \in BOOLEAN :
          /\ Pending("logout") => network
          /\ Ends("logout", LogoutResult(Res("logout", network)))
    /\ fetches' = [fetches EXCEPT !.logout = [pc |-> "idle"]]
    /\ authLog' = [authLog EXCEPT !.last = "logout"]

----------------------------------------------------------------------------
(* Specifications *)

Auth(c) == Login(c) \/ Logout(c) \/ VerifyAuth(c)

Departments(c) == GetDepartments(c) \/ PostDepartments(c)

Accounts(c) == GetUsers(c) \/ PostUsers(c) \/ PutUsers(c) \/ DeleteUsers(c)

Permissions(c) ==
    \/ GetPermissions(c) \/ PostPermissions(c)
    \/ ReplaceDelete(c) \/ ReplaceInsert(c) \/ ReplaceFinalize(c)
    \/ MailAlert(c)

\* the statements of a replace that fail
ReplaceFails(c) == ReplaceDeleteFails(c) \/ ReplaceInsertFails(c)

AuthProvider ==
    \/ RefreshAuthCall \/ RefreshAuthServed \/ RefreshAuthReturns
    \/ LoginCall \/ LoginServed \/ LoginReturns
    \/ LogoutCall \/ LogoutServed \/ LogoutReturns

Surveys(c) ==
    \/ GetSurveys(c) \/ GetSurvey(c) \/ GetUserSubmissions(c)
    \/ OverallStats(c) \/ DepartmentMetrics(c) \/ SubmitSurvey(c)

Next ==
    \/ \E c \in Clients :
          \/ Auth(c) \/ Departments(c) \/ Accounts(c)
          \/ Permissions(c) \/ ReplaceFails(c) \/ Surveys(c)
    \/ AuthProvider

Spec == Init /\ [][Next]_vars

\* the sessions and the users table
NextAccounts == \E c \in Clients : Auth(c) \/ Accounts(c)
SpecAccounts == Init /\ [][NextAccounts]_vars

\* the sessions and the departments table
NextDepartments == \E c \in Clients : Auth(c) \/ Departments(c)
SpecDepartments == Init /\ [][NextDepartments]_vars

\* the sessions and the permissions table, the statements not failing
NextPermissions == \E c \in Clients : Login(c) \/ Permissions(c)
SpecPermissions == Init /\ [][NextPermissions]_vars

\* the replaces of one client, which no other request overlaps, the statements
\* failing or not
NextReplaceFails == \E c \in {"c1"} : Login(c) \/ Permissions(c) \/ ReplaceFails(c)
SpecReplaceFails == Init /\ [][NextReplaceFails]_vars

\* the AuthProvider of the browser and the auth routes that serve it
NextAuthProvider == AuthProvider
SpecAuthProvider == Init /\ [][NextAuthProvider]_vars

\* the sessions, the users an admin updates, and the survey routes
NextSurveys == \E c \in Clients : Login(c) \/ PutUsers(c) \/ Surveys(c)
SpecSurveys == Init /\ [][NextSurveys]_vars

----------------------------------------------------------------------------
(* Every request a client can send to a route mounted under /api *)

ApiRequests ==
    {[route |-> rt, io |-> io] :
        rt \in {"GET /departments", "GET /users", "GET /permissions",
                "GET /user-submissions", "GET /dashboard/overall-stats"},
        io \in BOOLEAN}
    \cup {[route |-> "POST /departments", name |-> n, io |-> io] :
            n \in DepartmentNames, io \in BOOLEAN}
    \cup {[route |-> "POST /users", body |-> b, io |-> io] :
            b \in UserBodies, io \in BOOLEAN}
    \cup {[route |-> "PUT /users", id |-> id, body |-> b, io |-> io] :
            id \in UserIds, b \in ProfileBodies, io \in BOOLEAN}
    \cup {[route |-> "DELETE /users", id |-> id, io |-> io] :
            id \in UserIds, io \in BOOLEAN}
    \cup {[route |-> "POST /permissions", body |-> b] : b \in PermissionBodies}
    \cup {[route |-> rt] : rt \in {"POST /permissions/mail-alert", "GET /surveys"}}
    \cup {[route |-> "GET /surveys/:id", id |-> id] : id \in {1, 2}}
    \cup {[route |-> "GET /dashboard/department-metrics", random |-> n, io |-> io] :
            n \in Randoms, io \in BOOLEAN}
    \cup {[route |-> "POST /submit-survey", body |-> b, ioGet |-> g, ioRun |-> r] :
            b \in SurveyBodies, g \in BOOLEAN, r \in BOOLEAN}

ApiOut(c, r) ==
    CASE r.route = "GET /departments" -> GetDepartmentsOut(c, r.io)
      [] r.route = "POST /departments" -> PostDepartmentsOut(c, r.name, r.io)
      [] r.route = "GET /users" -> GetUsersOut(c, r.io)
      [] r.route = "POST /users" -> PostUsersOut(c, r.body, r.io)
      [] r.route = "PUT /users" -> PutUsersOut(c, r.id, r.body, r.io)
      [] r.route = "DELETE /users" -> DeleteUsersOut(c, r.id, r.io)
      [] r.route = "GET /permissions" -> GetPermissionsOut(c, r.io)
      [] r.route = "POST /permissions" -> PostPermissionsOut(c, r.body)
      [] r.route = "POST /permissions/mail-alert" -> MailAlertOut(c)
      [] r.route = "GET /surveys" -> GetSurveysOut(c)
      [] r.route = "GET /surveys/:id" -> GetSurveyOut(c, r.id)
      [] r.route = "GET /user-submissions" -> GetUserSubmissionsOut(c, r.io)
      [] r.route = "GET /dashboard/overall-stats" -> OverallStatsOut(c, r.io)
      [] r.route = "GET /dashboard/department-metrics" ->
             DepartmentMetricsOut(c, r.random, r.io)
      [] r.route = "POST /submit-survey" ->
             SubmitSurveyOut(c, r.body, r.ioGet, r.ioRun)

AdminRoutes == {"POST /departments", "GET /users", "POST /users", "PUT /users",
                "DELETE /users", "POST /permissions", "POST /permissions/mail-alert"}

----------------------------------------------------------------------------
(* C1: in every reachable state, a request to any /api route from a client
   whose session holds no user is answered 401 'Authentication required',
   the route's handler does not run and the state is left as it was. *)
C1_NoSessionIs401 ==
    \A c \in Clients :
        session[c] = NoUser =>
            \A r \in ApiRequests :
                LET o == ApiOut(c, r)
                IN  /\ o.status = 401
                    /\ o.body = [detail |-> "Authentication required"]
                    /\ ~o.ran
                    /\ o.st = Cur

\* a client without a session while another client is logged in and has changed
\* the users table
C1_Witness ==
    /\ session["c1"] = NoUser
    /\ session["c2"] # NoUser
    /\ nextUserId > 3
    /\ ApiOut("c1", [route |-> "DELETE /users", id |-> 3, io |-> FALSE]).status = 401


(* C2: in every reachable state, a request to an admin-only route from a client
   whose session user has a role other than 'Admin' is answered 403 'Admin
   access required' and leaves users, departments and permissions (the whole
   state) as they were; the handler of an admin-only route runs exactly when
   the session holds a user whose role is 'Admin'. *)
C2_NonAdminIs403 ==
    \A c \in Clients : \A r \in {q \in ApiRequests : q.route \in AdminRoutes} :
        LET o == ApiOut(c, r)
        IN  /\ (session[c] # NoUser /\ session[c].role # "Admin") =>
                  /\ o.status = 403
                  /\ o.body = [detail |-> "Admin access required"]
                  /\ o.st = Cur
            /\ o.ran <=> (session[c] # NoUser /\ session[c].role = "Admin")

\* a logged-in client that is no admin asks for the deletion of a user that exists
C2_Witness ==
    /\ session["c2"] # NoUser
    /\ session["c2"].role = "Rep"
    /\ \E u \in users : u.id = 1
    /\ ApiOut("c2", [route |-> "DELETE /users", id |-> 1, io |-> FALSE]).status = 403

Matches(username, password) ==
    \E u \in users : /\ u.username = username
                     /\ u.is_active = 1
                     /\ u.password = Hash(password)

(* C3: in every reachable state, a login with a non-empty username and a
   non-empty password that match no active stored user (no such username, an
   inactive user, a wrong password) is answered 401 with the body {detail:
   'Invalid username or password'} whenever the lookup itself succeeds, the
   answer is the same for any two such requests (also when the lookup fails:
   500 for both), and the session is left as it was. *)
C3_InvalidLoginIs401 ==
    \A c \in Clients :
        LET Invalid == {up \in (LoginNames \ {""}) \X (LoginPasswords \ {""}) :
                           ~Matches(up[1], up[2])}
        IN  \A a \in Invalid :
                /\ LET o == LoginOut(c, a[1], a[2], FALSE)
                   IN  /\ o.status = 401
                       /\ o.body = [detail |-> "Invalid username or password"]
                       /\ o.st = Cur
                /\ \A b \in Invalid, io \in BOOLEAN :
                       LET o1 == LoginOut(c, a[1], a[2], io)
                           o2 == LoginOut(c, b[1], b[2], io)
                       IN  /\ o1.status = o2.status
                           /\ o1.body = o2.body
                           /\ o1.st.session = session

\* the three cases at once: no user "carol", the user "rep" is inactive, and
\* "secret1" is not the password of "admin"; the client is logged in and stays so
C3_Witness ==
    /\ \A u \in users : u.username # "carol"
    /\ \E u \in users : u.username = "rep" /\ u.is_active = 0
                        /\ u.password = Hash("secret1")
    /\ \E u \in users : u.username = "admin" /\ u.is_active = 1
                        /\ u.password # Hash("secret1")
    /\ session["c1"] # NoUser
    /\ LoginOut("c1", "rep", "secret1", FALSE).status = 401
    /\ LoginOut("c1", "rep", "secret1", FALSE).st.session = session

(* C4: the stored password hash is sent to no client: in every reachable state
   no session user record has a password field (the record a successful login
   writes included), and the bodies of every login response, of verify_auth
   and of every row of GET /api/users have no password field. *)
C4_NoPasswordSent ==
    \A c \in Clients :
        /\ "password" \notin DOMAIN session[c]
        /\ \A username \in LoginNames, password \in LoginPasswords, io \in BOOLEAN :
              LET o == LoginOut(c, username, password, io)
              IN  /\ "password" \notin DOMAIN o.body
                  /\ "password" \notin DOMAIN o.st.session[c]
                  /\ o.status = 200 => o.st.session[c] = SessionUser(o.body)
        /\ LET o == VerifyAuthOut(c)
           IN  /\ "password" \notin DOMAIN o.body
               /\ "password" \notin DOMAIN o.body.user
        /\ \A io \in BOOLEAN :
              LET o == GetUsersOut(c, io)
              IN  o.status = 200 =>
                      \A i \in DOMAIN o.body : "password" \notin DOMAIN o.body[i]

\* a session written by a successful login, of a client that can list the users
C4_Witness ==
    /\ session["c1"] # NoUser
    /\ session["c1"].username = "admin"
    /\ GetUsersOut("c1", FALSE).status = 200
    /\ Len(GetUsersOut("c1", FALSE).body) = 3
    /\ LoginOut("c2", "admin", "password", FALSE).status = 200

(* C5: once a logout of a client has succeeded and until that client logs in
   successfully again, verify_auth of that client is answered 401
   {isAuthenticated: false, user: null} and every /api request of that client
   is answered 401. *)
C5_LoggedOutStaysOut ==
    \A c \in Clients :
        loggedOut[c] =>
            /\ VerifyAuthOut(c).status = 401
            /\ VerifyAuthOut(c).body = [isAuthenticated |-> FALSE, user |-> NoUser]
            /\ \A r \in ApiRequests : ApiOut(c, r).status = 401

\* a client has logged out while the other client, logged in as the same user,
\* still is
C5_Witness ==
    /\ loggedOut["c1"]
    /\ session["c2"] # NoUser
    /\ session["c2"].username = "admin"
    /\ VerifyAuthOut("c1").status = 401
    /\ VerifyAuthOut("c2").status = 200

(* C6: a logout whose session destruction fails is answered 500 'Failed to
   logout', clears no cookie and leaves the session; the cookie is cleared
   exactly by the response 200 'Logged out successfully' of a destruction that
   succeeded. *)
C6_CookieClearedOnSuccessOnly ==
    \A c \in Clients :
        /\ LET o == LogoutOut(c, TRUE)
           IN  /\ o.status = 500
               /\ o.body = [detail |-> "Failed to logout"]
               /\ ~o.clearCookie
               /\ o.st = Cur
        /\ \A err \in BOOLEAN :
              LET o == LogoutOut(c, err)
              IN  o.clearCookie <=>
                      /\ ~err
                      /\ o.status = 200
                      /\ o.body = [message |-> "Logged out successfully"]
                      /\ o.st.session[c] = NoUser

\* a logged-in client whose logout fails, and stays logged in
C6_Witness ==
    /\ session["c1"] # NoUser
    /\ LogoutOut("c1", TRUE).status = 500
    /\ LogoutOut("c1", TRUE).st.session["c1"] = session["c1"]
    /\ loggedOut["c2"]


\* the rows a request that passed the validation is to leave in the table
NewRows(c) ==
    [i \in 1..Len(replace[c].allowed_pairs) |->
        PermissionRow(replace[c].allowed_pairs[i], replace[c].start_date,
                      replace[c].end_date)]

Count(rows, row) == Cardinality({i \in DOMAIN rows : rows[i] = row})

SameRows(a, b) ==
    /\ Len(a) = Len(b)
    /\ \A i \in DOMAIN a : Count(a, a[i]) = Count(b, a[i])

(* C7: when a POST /api/permissions of an admin is answered 200, the
   permissions table holds exactly one row per element of the request's
   allowed_pairs, each with the request's start_date and end_date, and no
   other row; with allowed_pairs = [] the table is empty. *)
C7_ReplaceLeavesExactlyThePairs ==
    \A c \in Clients :
        (Finalizing(c) /\ FinalizeOut(c, FALSE).status = 200) =>
            SameRows(permissions, NewRows(c))

\* the same of a request that no other POST /api/permissions overlaps
C7_AloneLeavesExactlyThePairs ==
    \A c \in Clients :
        (Finalizing(c) /\ FinalizeOut(c, FALSE).status = 200 /\ ~replaceLog[c].overlapped) =>
            permissions = NewRows(c)

\* what GET /api/permissions sends of a row of the table
Sent(row) == [f \in (DOMAIN row) \ {"id", "from_department_name", "to_department_name"}
                 |-> row[f]]

(* C8: the replace is not atomic. While a POST /api/permissions that no other
   replace overlaps is between its DELETE and its last INSERT, the table holds
   the rows of the first elements of allowed_pairs only, none for i = 1, and
   a GET /api/permissions answered then sends these rows and no other: an
   empty or partial set that is neither the set before nor the set after. *)
C8_ReplaceIsNotAtomic ==
    \A c \in Clients :
        (replace[c].pc = "insert" /\ ~replaceLog[c].overlapped) =>
            /\ permissions = SubSeq(NewRows(c), 1, replace[c].i - 1)
            /\ \A reader \in Clients :
                  session[reader] # NoUser =>
                      LET o == GetPermissionsOut(reader, FALSE)
                      IN  /\ o.status = 200
                          /\ Len(o.body) <= replace[c].i - 1
                          /\ \A k \in DOMAIN o.body :
                                \E j \in 1..(replace[c].i - 1) :
                                    Sent(o.body[k]) = NewRows(c)[j]

\* the table held rows, the request brings rows, and a GET between the DELETE
\* and the first INSERT sends none
C8_Witness ==
    \E c \in Clients, reader \in Clients :
        /\ replace[c].pc = "insert"
        /\ replace[c].i = 1
        /\ Len(replace[c].allowed_pairs) > 0
        /\ replaceLog[c].held
        /\ ~replaceLog[c].overlapped
        /\ reader # c
        /\ session[reader] # NoUser
        /\ GetPermissionsOut(reader, FALSE).status = 200
        /\ GetPermissionsOut(reader, FALSE).body = <<>>

\* the table held rows, the request brings two, and a GET between the two
\* INSERTs sends the first of them only
C8_WitnessPartial ==
    \E c \in Clients, reader \in Clients :
        /\ replace[c].pc = "insert"
        /\ replace[c].i = 2
        /\ Len(replace[c].allowed_pairs) = 2
        /\ replaceLog[c].held
        /\ ~replaceLog[c].overlapped
        /\ reader # c
        /\ session[reader] # NoUser
        /\ Len(GetPermissionsOut(reader, FALSE).body) = 1
        /\ Sent(GetPermissionsOut(reader, FALSE).body[1]).start_date
               = replace[c].start_date

IsAdmin(c) == session[c] # NoUser /\ session[c].role = "Admin"

(* C9: department names stay pairwise distinct. In every reachable state a
   POST /api/departments of an admin with a name that exists is answered 400
   'Department already exists', not 500, and adds no row, when the storage
   itself does not fail; with a new non-empty name it is answered 201 and adds
   the row of that name; and GET /api/departments sends every row of the
   table. *)
C9_DepartmentNamesDistinct ==
    /\ \A d1 \in departments, d2 \in departments : d1.name = d2.name => d1 = d2
    /\ \A c \in Clients :
          /\ IsAdmin(c) =>
                \A name \in DepartmentNames \ {""} :
                    LET o == PostDepartmentsOut(c, name, FALSE)
                    IN  IF \E d \in departments : d.name = name
                        THEN /\ o.status = 400
                             /\ o.body = [message |-> "Department already exists"]
                             /\ o.st = Cur
                        ELSE /\ o.status = 201
                             /\ o.body.name = name
                             /\ \E d \in o.st.departments \ departments :
                                   /\ d.name = name
                                   /\ o.st.departments = departments \cup {d}
          /\ session[c] # NoUser =>
                LET o == GetDepartmentsOut(c, FALSE)
                IN  /\ o.status = 200
                    /\ {o.body[i] : i \in DOMAIN o.body} = departments
                    /\ Len(o.body) = Cardinality(departments)

\* "Finance" has been created, GET sends it, and creating it again is refused
C9_Witness ==
    /\ IsAdmin("c1")
    /\ \E d \in departments : d.name = "Finance" /\ d.id = 3
    /\ \E i \in DOMAIN GetDepartmentsOut("c1", FALSE).body :
          GetDepartmentsOut("c1", FALSE).body[i].name = "Finance"
    /\ PostDepartmentsOut("c1", "Finance", FALSE).status = 400

\* the body passes the validation chain of POST /api/users
WellFormed(b) ==
    /\ b.username # "" /\ Len(b.password) >= 6 /\ b.name # ""
    /\ IsEmail(b.email) /\ b.department # "" /\ b.role # ""

(* C10: in every reachable state no two rows of users share a username and no
   two share an email; a well-formed POST /api/users of an admin whose
   username or email is in use is answered 400 'Username or email already
   exists' and leaves the users table (the whole state) as it was, when the
   storage itself does not fail. *)
C10_UsersUnique ==
    /\ \A u1 \in users, u2 \in users :
          (u1.username = u2.username \/ u1.email = u2.email \/ u1.id = u2.id) => u1 = u2
    /\ \A c \in Clients :
          IsAdmin(c) =>
              \A b \in {x \in UserBodies : WellFormed(x)} :
                  (\E u \in users : u.username = b.username \/ u.email = b.email) =>
                      LET o == PostUsersOut(c, b, FALSE)
                      IN  /\ o.status = 400
                          /\ o.body = [message |-> "Username or email already exists"]
                          /\ o.st = Cur

\* after a create ("carol"), an update (the user 2 promoted) and a delete
\* (the user 1), creating "carol" again is refused
C10_Witness ==
    /\ IsAdmin("c1")
    /\ \E u \in users : u.username = "carol"
    /\ \E u \in users : u.id = 2 /\ u.role = "Admin"
    /\ \A u \in users : u.id # 1
    /\ PostUsersOut("c1", NewUser, FALSE).status = 400

\* the body of a submit-survey with integer ids and the given rating
Rating(r) == [survey_id |-> 1, rated_department_id |-> 1,
              overall_customer_rating |-> r, suggestions |-> ""]

\* the row the session user of c is to own after submitting b
OwnRow(c, b) ==
    [survey_id |-> b.survey_id, submitter_user_id |-> session[c].id,
     submitter_department_id |->
         (CHOOSE d \in departments : d.name = session[c].department).id,
     rated_department_id |-> b.rated_department_id,
     overall_customer_rating |-> b.overall_customer_rating,
     suggestions |-> b.suggestions]

Resolves(c) == \E d \in departments : d.name = session[c].department

(* C11 as stated: a submit-survey of a logged-in client with integer ids is
   answered 400 and adds no row when the rating is outside 1..100, and is
   answered 200 and adds exactly one row owned by the session user when the
   rating is in 1..100 (the storage itself not failing). *)
C11_RatingDecides ==
    \A c \in Clients :
        session[c] # NoUser =>
            \A b \in SurveyBodies :
                LET o == SubmitSurveyOut(c, b, FALSE, FALSE)
                IN  IF b.overall_customer_rating \in 1..100
                    THEN /\ o.status = 200
                         /\ o.st.submissions = Append(submissions, OwnRow(c, b))
                    ELSE /\ o.status = 400
                         /\ o.st = Cur

(* C11 amended: a rating outside 1..100 is answered 400 and adds no row; a
   rating in 1..100 is answered 200 and adds exactly one row owned by the
   session user when the department name of the session user names a row of
   departments, and is answered 500 'Failed to find user department' and adds
   no row when it names none (the storage itself not failing). *)
C11_RatingDecidesWhenResolved ==
    \A c \in Clients :
        session[c] # NoUser =>
            \A b \in SurveyBodies :
                LET o == SubmitSurveyOut(c, b, FALSE, FALSE)
                IN  IF b.overall_customer_rating \notin 1..100
                    THEN /\ o.status = 400
                         /\ o.body.detail = "Validation failed"
                         /\ o.st = Cur
                    ELSE IF Resolves(c)
                    THEN /\ o.status = 200
                         /\ o.body.submission_id = Len(submissions) + 1
                         /\ o.st.submissions = Append(submissions, OwnRow(c, b))
                         /\ o.st = [Cur EXCEPT !.submissions = o.st.submissions]
                    ELSE /\ o.status = 500
                         /\ o.body = [detail |-> "Failed to find user department"]
                         /\ o.st = Cur

\* a submission with the rating 100 is stored, owned by the session user of c1,
\* whose next submissions with 0 and 101 are refused and with 1 accepted
C11_Witness ==
    /\ session["c1"] # NoUser
    /\ Resolves("c1")
    /\ Len(submissions) = 1
    /\ submissions[1].overall_customer_rating = 100
    /\ submissions[1].submitter_user_id = session["c1"].id
    /\ SubmitSurveyOut("c1", Rating(0), FALSE, FALSE).status = 400
    /\ SubmitSurveyOut("c1", Rating(101), FALSE, FALSE).status = 400
    /\ SubmitSurveyOut("c1", Rating(1), FALSE, FALSE).status = 200

\* req.session.user.role, which requireAdmin compares with 'Admin'
RoleChecked(c) == session[c].role

\* req.session.user.department, which submit-survey looks up in departments
DepartmentUsed(c) == session[c].department

\* the row of users the session user of c was read from, if it is still there
Stored(c) == {u \in users : u.id = session[c].id}

(* C12: no request is decided on stale data: in every reachable state, for a
   client with a session user, the role the admin gate checks and the
   department submit-survey uses are those of the user's stored row, and an
   admin-only route lets the client through only if the stored row, updated or
   deleted since the login as it may be, has the role 'Admin'. *)
C12_NoStaleData ==
    \A c \in Clients :
        session[c] # NoUser =>
            /\ \A u \in Stored(c) :
                  /\ RoleChecked(c) = u.role
                  /\ DepartmentUsed(c) = u.department
            /\ GetUsersOut(c, FALSE).ran =>
                  \E u \in Stored(c) : u.role = "Admin"
            /\ \A b \in SurveyBodies :
                  LET o == SubmitSurveyOut(c, b, FALSE, FALSE)
                  IN  o.status = 200 =>
                          \E u \in Stored(c), d \in departments :
                              /\ d.name = u.department
                              /\ o.st.submissions[Len(o.st.submissions)]
                                     .submitter_department_id = d.id

\* the body passes the validation chain of PUT /api/users/:id
WellFormedProfile(b) ==
    b.name # "" /\ IsEmail(b.email) /\ b.department # "" /\ b.role # ""

\* the user id exists and another user holds the email b would give it
EmailTaken(id, b) ==
    /\ \E u \in users : u.id = id
    /\ \E u \in users : u.id # id /\ u.email = b.email

(* C13: every uniqueness violation in a handler is reported as 400, never 500:
   in every reachable state the requests of an admin that violate a UNIQUE
   constraint, the storage not failing otherwise, are answered 400 and change
   nothing: a POST /api/departments with a name in use, a POST /api/users with
   a username or email in use, and a PUT /api/users/:id that gives an existing
   user the email of another user. *)
C13_UniqueViolationIs400 ==
    \A c \in Clients :
        IsAdmin(c) =>
            /\ \A name \in DepartmentNames \ {""} :
                  DepartmentsUniqueViolation(departments, name) =>
                      /\ PostDepartmentsOut(c, name, FALSE).status = 400
                      /\ PostDepartmentsOut(c, name, FALSE).st = Cur
            /\ \A b \in {x \in UserBodies : WellFormed(x)} :
                  (\E u \in users : u.username = b.username \/ u.email = b.email) =>
                      /\ PostUsersOut(c, b, FALSE).status = 400
                      /\ PostUsersOut(c, b, FALSE).st = Cur
            /\ \A id \in UserIds, b \in {x \in ProfileBodies : WellFormedProfile(x)} :
                  EmailTaken(id, b) =>
                      /\ PutUsersOut(c, id, b, FALSE).status = 400
                      /\ PutUsersOut(c, id, b, FALSE).st = Cur

(* C14: a storage failure during a permission replace is caught and reported:
   every accepted POST /api/permissions is answered, and when its DELETE or
   one of its INSERTs has failed the answer is 500 'Failed to save
   permissions'; 200 'Permissions saved successfully' is sent only when the
   DELETE and every INSERT succeeded. *)
C14_ReplaceFailureIs500 ==
    \A c \in Clients :
        /\ replace[c].pc # "lost"
        /\ Finalizing(c) =>
              \A err \in BOOLEAN :
                  LET o == FinalizeOut(c, err)
                  IN  /\ o.status \in {200, 500}
                      /\ o.status = 200 => ~replaceLog[c].failed /\ ~err
                      /\ (replaceLog[c].failed \/ err) =>
                            /\ o.status = 500
                            /\ o.body = [message |-> "Failed to save permissions"]

(* C15: once login() has resolved with a user, and until logout() or login()
   is called again, the provider holds that user and isAuthenticated is true,
   in whatever order the response of the verify_auth started on mount and the
   response of the login arrive. *)
C15_LoginOutlastsRefresh ==
    authLog.resolved => (auth.user # NoUser /\ auth.isAuthenticated)

(* C16: once a refreshAuth, a login or a logout has completed (with a response
   of any status or with a rejected fetch), isAuthenticated is true exactly
   when user is not null, exactly when the key 'insightPulseUser' is set in
   localStorage, and the key then holds that user; when the function that
   completed last is logout, user is null, isAuthenticated is false and the
   key is removed, whatever the server did with the session. *)
C16_UserFlagAndKeyAgree ==
    authLog.last # "none" =>
        /\ auth.isAuthenticated <=> auth.user # NoUser
        /\ auth.user # NoUser <=> auth.stored # NoUser
        /\ auth.stored = auth.user
        /\ authLog.last = "logout" =>
              /\ auth.user = NoUser
              /\ ~auth.isAuthenticated
              /\ auth.stored = NoUser

\* logout has completed and left the provider unauthenticated while the session
\* of the browser lives on at the server
C16_Witness ==
    /\ authLog.last = "logout"
    /\ fetches.login.pc = "idle"
    /\ fetches.refreshAuth.pc = "done"
    /\ session[Browser] # NoUser
    /\ auth.user = NoUser
    /\ ~auth.isAuthenticated
    /\ auth.stored = NoUser

====
